---- MODULE Spec2Model ----
(***************************************************************************)
(* The orchestration engine of backend/app/core/orchestrator.py together   *)
(* with the agent life cycle of backend/app/agents/base.py and the         *)
(* execute_task / validate_result methods of the concrete agents.          *)
(*                                                                         *)
(* Scheduling is asyncio's: a coroutine runs until it awaits something     *)
(* that really suspends.  Awaiting _get_available_agent, _check_cost_limit,*)
(* prepare_task, cleanup_task, handle_error, _track_usage, _get_rag_context*)
(* or _store_result never suspends (none of them awaits a pending future), *)
(* so the only suspension points of a lifecycle are the two model calls    *)
(*   model.agenerate               (inside execute_task)                   *)
(*   verification_model.agenerate  (inside validate_result).               *)
(* A lifecycle is therefore three atomic steps: ProcessTaskStart,          *)
(* ExecuteResume and ValidateResume.  submit_task, cancel_task and         *)
(* initialize contain no suspension point and are one step each.           *)
(*                                                                         *)
(* Money is counted in whole units, progress in tenths (0.2 = 2).          *)
(***************************************************************************)
EXTENDS Integers, Sequences, FiniteSets, TLC

\* ------------------------------------------------------------- bounds
MaxTasks == 2            \* number of submit_task calls explored
MaxCost == 2             \* largest AgentResult.cost explored that can fit
MaxPool == 3             \* longest agent pool _get_available_agent is given
COST_LIMIT == 3          \* settings.COST_LIMIT

\* ------------------------------------------------------------- types
TaskType == {"code", "design", "marketing"}
TaskStatus == {"pending", "in_progress", "verifying", "completed", "failed"}
AgentStatus == {"idle", "busy", "error", "offline"}

TaskIds == 1..MaxTasks
\* AgentResult.cost: the small costs, and one that no ledger has room for.
Costs == (0..MaxCost) \cup {COST_LIMIT + 1}
NoTask == 0              \* current_task_id = None
NoAgent == 0             \* _get_available_agent returned None
NoProgress == -1         \* update_status called without a progress
NoError == "None"        \* task.error = None

\* AgentResult (pydantic model); NoneResult stands for Python's None.
AgentResult(success, cost, error) ==
    [none |-> FALSE, success |-> success, cost |-> cost, error |-> error]

NoneResult == [none |-> TRUE, success |-> FALSE, cost |-> 0, error |-> NoError]

\* The error strings the code writes.
ErrNoAgent == "No available agent found"
ErrCostLimit == "Cost limit reached"
ErrValidation == "Result validation failed"
ErrCancelled == "Task cancelled by user"
ErrBusy == "Agent is busy or unavailable"
ErrParse == "Failed to parse response"
ErrRaised == "str(e)"
ErrNotFound == "Task not found"

VARIABLES
    agents,              \* Orchestrator._agents: TaskType -> sequence of agents
    tasks,               \* Orchestrator._tasks: task id -> TaskManager
    total_cost,          \* Orchestrator._total_cost
    cost_limit_reached,  \* Orchestrator._cost_limit_reached
    initialized,         \* Orchestrator.initialize has run
    init_returned,       \* history: what each type's agent.initialize() gave
                         \* back to _create_agent ("none" before the call)
    pc,                  \* position of each task's _process_task coroutine
    lc_agent,            \* _process_task's local `agent` (index in the pool)
    lc_result,           \* _process_task's local `result`
    log,                 \* history: the steps each lifecycle has taken, in order
    edges,               \* history: per task, <<old, new>> of each update_status
                         \* call made by the latest step that wrote its status
    cancelled,           \* history: ids for which cancel_task returned True
    reserve,             \* history: each lifecycle's reservation attempt
    api                  \* what the call made by the latest step gave back to
                         \* its caller; NoCall when that step was not a call

vars == <<agents, tasks, total_cost, cost_limit_reached, initialized, init_returned, pc,
          lc_agent, lc_result, log, edges, cancelled, reserve, api>>

\* Mutant: a new task is created already InProgress.
MutTaskManagerInitRunning(task_type) ==
    [type |-> task_type, status |-> "in_progress", progress |-> 0,
     result |-> NoneResult, error |-> NoError, cost |-> 0]

\* ------------------------------------------------------------- TaskManager
TaskManagerInit(task_type) ==
    [type |-> task_type, status |-> "pending", progress |-> 0,
     result |-> NoneResult, error |-> NoError, cost |-> 0]

\* Mutant: a status write without a progress puts the progress back to 0.
MutUpdateStatusResetsProgress(task, status, progress) ==
    [task EXCEPT !.status = status,
                 !.progress = IF progress # NoProgress THEN progress ELSE 0]

UpdateStatus(task, status, progress) ==
    [task EXCEPT !.status = status,
                 !.progress = IF progress # NoProgress THEN progress ELSE @]

\* ------------------------------------------------------------- BaseAgent
BaseAgentInit(agent_id) ==
    [agent_id |-> agent_id, status |-> "idle", current_task_id |-> NoTask,
     total_tasks_completed |-> 0]

\* Mutant: prepare_task accepts the task without marking the agent Busy.
MutPrepareTaskNoMark(a, task_id) ==
    IF a.status # "idle"
    THEN [ok |-> FALSE, agent |-> a]
    ELSE [ok |-> TRUE, agent |-> [a EXCEPT !.current_task_id = task_id]]

\* Mutant: prepare_task takes the agent over whatever its status.
MutPrepareTaskTakesOver(a, task_id) ==
    [ok |-> TRUE,
     agent |-> [a EXCEPT !.current_task_id = task_id, !.status = "busy"]]

PrepareTask(a, task_id) ==
    IF a.status # "idle"
    THEN [ok |-> FALSE, agent |-> a]
    ELSE [ok |-> TRUE,
          agent |-> [a EXCEPT !.current_task_id = task_id, !.status = "busy"]]

\* Mutant: cleanup_task frees the agent but leaves the task id on it.
MutCleanupTaskKeepsTask(a) ==
    [a EXCEPT !.total_tasks_completed = @ + 1, !.status = "idle"]

CleanupTask(a) ==
    [a EXCEPT !.current_task_id = NoTask,
              !.total_tasks_completed = @ + 1,
              !.status = "idle"]

\* Mutant: handle_error forgets to take the agent out of Busy.
MutHandleErrorKeepsStatus(a) ==
    [a EXCEPT !.current_task_id = NoTask]

HandleError(a) ==
    [a EXCEPT !.status = "error", !.current_task_id = NoTask]

\* ------------------------------------------------------------- Orchestrator
AgentIdOf(task_type) ==
    CASE task_type = "code" -> "coding-agent-1"
      [] task_type = "design" -> "design-agent-1"
      [] task_type = "marketing" -> "marketing-agent-1"

\* Mutant: an agent whose initialize() failed joins the pool as it was left.
MutCreateAgentAdmitsFailed(pool, task_type, init_ok) ==
    [pool EXCEPT ![task_type] =
        Append(@, IF init_ok THEN BaseAgentInit(AgentIdOf(task_type))
                  ELSE HandleError(BaseAgentInit(AgentIdOf(task_type))))]

\* _create_agent: the agent joins the pool iff its initialize() returned True.
CreateAgent(pool, task_type, init_ok) ==
    IF init_ok
    THEN [pool EXCEPT ![task_type] = Append(@, BaseAgentInit(AgentIdOf(task_type)))]
    ELSE pool

\* Mutant: the scan returns the head of the pool whatever its status.
MutGetAvailableAgentAnyStatus(task_type) ==
    IF Len(agents[task_type]) = 0 THEN NoAgent ELSE 1

\* Mutant: the scan keeps the last idle agent it meets instead of the first.
MutGetAvailableAgentLast(task_type) ==
    LET idle == {i \in 1..Len(agents[task_type]) : agents[task_type][i].status = "idle"}
    IN  IF idle = {} THEN NoAgent
        ELSE CHOOSE i \in idle : \A j \in idle : i >= j

\* Mutant: the scan gives up as soon as any type has no idle agent.
MutGetAvailableAgentNeedsAllPools(task_type) ==
    LET idle == {i \in 1..Len(agents[task_type]) : agents[task_type][i].status = "idle"}
    IN  IF \E ty \in TaskType :
              \A i \in 1..Len(agents[ty]) : agents[ty][i].status # "idle"
        THEN NoAgent
        ELSE CHOOSE i \in idle : \A j \in idle : i <= j

\* _get_available_agent: index of the first idle agent of the type, or NoAgent.
GetAvailableAgent(task_type) ==
    LET idle == {i \in 1..Len(agents[task_type]) : agents[task_type][i].status = "idle"}
    IN  IF idle = {} THEN NoAgent
        ELSE CHOOSE i \in idle : \A j \in idle : i <= j

\* Mutant: the check forgets the cost it is asked about.
MutCheckCostLimitIgnoresEstimate(estimated_cost) ==
    IF total_cost > COST_LIMIT
    THEN [ok |-> FALSE, flag |-> TRUE]
    ELSE [ok |-> TRUE, flag |-> cost_limit_reached]

\* Mutant: the check refuses a cost that fits exactly.
MutCheckCostLimitStrict(estimated_cost) ==
    IF total_cost + estimated_cost >= COST_LIMIT
    THEN [ok |-> FALSE, flag |-> TRUE]
    ELSE [ok |-> TRUE, flag |-> cost_limit_reached]

\* Mutant: once the flag is set the check refuses every cost.
MutCheckCostLimitGated(estimated_cost) ==
    IF cost_limit_reached \/ total_cost + estimated_cost > COST_LIMIT
    THEN [ok |-> FALSE, flag |-> TRUE]
    ELSE [ok |-> TRUE, flag |-> cost_limit_reached]

\* _check_cost_limit: the returned bool and the flag afterwards.
CheckCostLimit(estimated_cost) ==
    IF total_cost + estimated_cost > COST_LIMIT
    THEN [ok |-> FALSE, flag |-> TRUE]
    ELSE [ok |-> TRUE, flag |-> cost_limit_reached]

NoReserve == [tried |-> FALSE, amount |-> 0, before |-> 0, after |-> 0,
              accepted |-> FALSE, flag |-> FALSE]

\* What a call gives back: the value of its return statement, or the
\* exception it raises.
NoCall == [op |-> "none", id |-> NoTask, raised |-> NoError, value |-> FALSE]

Returned(op, id, value) ==
    [op |-> op, id |-> id, raised |-> NoError, value |-> value]

Raised(op, id, error) ==
    [op |-> op, id |-> id, raised |-> error, value |-> FALSE]

\* What _create_agent saw come back from agent.initialize().
InitReturn(init_ok) == IF init_ok THEN "true" ELSE "false"

Init ==
    /\ agents = [ty \in TaskType |-> << >>]
    /\ tasks = << >>
    /\ total_cost = 0
    /\ cost_limit_reached = FALSE
    /\ initialized = FALSE
    /\ init_returned = [ty \in TaskType |-> "none"]
    /\ pc = [t \in TaskIds |-> "unborn"]
    /\ lc_agent = [t \in TaskIds |-> NoAgent]
    /\ lc_result = [t \in TaskIds |-> NoneResult]
    /\ log = [t \in TaskIds |-> << >>]
    /\ edges = [t \in TaskIds |-> {}]
    /\ cancelled = {}
    /\ reserve = [t \in TaskIds |-> NoReserve]
    /\ api = NoCall

\* Orchestrator.initialize: one agent per type; an agent whose initialize()
\* fails is not appended.
Initialize ==
    /\ ~initialized
    /\ \E okc \in BOOLEAN, okd \in BOOLEAN, okm \in BOOLEAN :
         /\ agents' = CreateAgent(CreateAgent(CreateAgent(agents, "code", okc),
                                              "design", okd), "marketing", okm)
         /\ init_returned' = [code |-> InitReturn(okc), design |-> InitReturn(okd),
                              marketing |-> InitReturn(okm)]
    /\ initialized' = TRUE
    /\ api' = Returned("initialize", NoTask, TRUE)
    /\ UNCHANGED <<tasks, total_cost, cost_limit_reached, pc, lc_agent,
                   lc_result, log, edges, cancelled, reserve>>

\* submit_task: a fresh id, a TaskManager in Pending, the lifecycle scheduled.
SubmitTask(task_type) ==
    LET task_id == Len(tasks) + 1
    IN  /\ task_id \in TaskIds
        /\ tasks' = Append(tasks, TaskManagerInit(task_type))
        /\ pc' = [pc EXCEPT ![task_id] = "scheduled"]
        /\ api' = Returned("submit_task", task_id, task_id)
        /\ UNCHANGED <<agents, total_cost, cost_limit_reached, initialized, init_returned,
                       lc_agent, lc_result, log, edges, cancelled, reserve>>

\* cancel_task on a known id.
CancelTask(task_id) ==
    /\ task_id \in DOMAIN tasks
    /\ tasks[task_id].status \notin {"completed", "failed"}
    /\ tasks' = [tasks EXCEPT ![task_id] =
                   [UpdateStatus(@, "failed", NoProgress) EXCEPT !.error = ErrCancelled]]
    /\ edges' = [edges EXCEPT ![task_id] = {<<tasks[task_id].status, "failed">>}]
    /\ cancelled' = cancelled \cup {task_id}
    /\ api' = Returned("cancel_task", task_id, TRUE)
    /\ UNCHANGED <<agents, total_cost, cost_limit_reached, initialized, init_returned, pc,
                   lc_agent, lc_result, log, reserve>>

\* ------------------------------------------------------------- lifecycle
\* CodingAgent.validate_result returns True without a model call when the
\* result carries no code (line 127-128); the other agents always call the
\* verification model.
ValidateNeedsModel(task_type, has_text) ==
    IF task_type = "code" THEN has_text ELSE TRUE

\* Mutant: the Failed write records the reason but not the status.
MutFailedKeepsStatus(task, error) ==
    [task EXCEPT !.error = error]

\* Mutant: the Failed write forgets to record the reason.
MutFailedDropsReason(task, error) ==
    UpdateStatus(task, "failed", NoProgress)

\* Mutant: a failing task gives its cost back.
MutFailedResetsCost(task, error) ==
    [UpdateStatus(task, "failed", NoProgress) EXCEPT !.error = error, !.cost = 0]

\* Mutant: a failing task is shown as fully progressed.
MutFailedFullProgress(task, error) ==
    [UpdateStatus(task, "failed", 10) EXCEPT !.error = error]

Failed(task, error) ==
    [UpdateStatus(task, "failed", NoProgress) EXCEPT !.error = error]

\* Mutant: the new total is the cost alone.
MutNewCostOverwrites(cost) == cost

\* line 167: new_cost = self._total_cost + result.cost
NewCost(cost) == total_cost + cost

\* Mutant: the accepted cost is not put on the task.
MutChargeNothing(task, res) == task

\* line 170: task.cost = result.cost
Charge(task, res) == [task EXCEPT !.cost = res.cost]

\* Mutant: the refusal records the reason but not the Failed status.
MutCostRejectedNoStatus(task, res) == [task EXCEPT !.error = ErrCostLimit]

\* Mutant: the cost is put on the task before the check.
MutCostRejectedCharges(task, res) ==
    [Failed(task, ErrCostLimit) EXCEPT !.cost = res.cost]

\* lines 172-174: the reservation was refused
CostRejected(task, res) == Failed(task, ErrCostLimit)

\* Mutant: the Completed write forgets to store the result.
MutCompletedNoResult(task, res) ==
    UpdateStatus(task, "completed", 10)

\* lines 187-188: task.update_status(COMPLETED, 1.0); task.result = result
Completed(task, res) ==
    [UpdateStatus(task, "completed", 10) EXCEPT !.result = res]

\* _process_task from the return of execute_task (line 163) to its end or to
\* the suspension inside validate_result: cost tracking (165-174), the
\* verification gate (176-183) and the final status write (185-191).
\* `events` and `reserve` are the history this stretch of code leaves.
\* execute_task and validate_result catch every Exception themselves
\* (coding_agent.py 112-118, 149-151), so nothing in the try block raises and
\* the handler at lines 193-195 is not entered.
AfterExecute(task, res, has_text) ==
    IF ~res.success
    THEN [task |-> Failed(task, res.error),
          total |-> total_cost, flag |-> cost_limit_reached, pc |-> "done",
          edges |-> {<<task.status, "failed">>},
          events |-> <<"failed">>,
          reserve |-> NoReserve]
    ELSE LET new_cost == NewCost(res.cost)
             chk == CheckCostLimit(res.cost)
             rsv == [tried |-> TRUE, amount |-> res.cost,
                     before |-> total_cost, after |-> total_cost,
                     accepted |-> chk.ok, flag |-> chk.flag]
         IN  IF ~chk.ok
             THEN [task |-> CostRejected(task, res),
                   total |-> total_cost, flag |-> chk.flag, pc |-> "done",
                   edges |-> {<<task.status, "failed">>},
                   events |-> <<"reserve_rejected", "failed">>,
                   reserve |-> rsv]
             ELSE LET verifying == UpdateStatus(Charge(task, res), "verifying", 8)
                  IN  IF ValidateNeedsModel(task.type, has_text)
                      THEN [task |-> verifying,
                            total |-> new_cost, flag |-> chk.flag,
                            pc |-> "validating",
                            edges |-> {<<task.status, "verifying">>},
                            events |-> <<"reserve_ok", "verifying", "validate">>,
                            reserve |-> rsv]
                      ELSE [task |-> Completed(verifying, res),
                            total |-> new_cost, flag |-> chk.flag,
                            pc |-> "done",
                            edges |-> {<<task.status, "verifying">>,
                                       <<"verifying", "completed">>},
                            events |-> <<"reserve_ok", "verifying", "validate",
                                         "validate_ok", "completed">>,
                            reserve |-> rsv]

\* The reservation attempt as the step leaves it: the ledger right after it.
Observed(post) ==
    IF post.reserve.tried
    THEN [post.reserve EXCEPT !.after = post.total, !.flag = post.flag]
    ELSE post.reserve

\* Mutant: a lifecycle that found no agent stays scheduled and tries again.
MutStartStepRetries(t) ==
    LET task == tasks[t]
        i == GetAvailableAgent(task.type)
    IN  IF i = NoAgent
        THEN [task |-> Failed(task, ErrNoAgent), agent |-> NoAgent,
              pool |-> agents, total |-> total_cost,
              flag |-> cost_limit_reached, pc |-> "scheduled",
              edges |-> {<<task.status, "failed">>},
              events |-> <<"no_agent", "failed">>, reserve |-> NoReserve]
        ELSE [task |-> UpdateStatus(task, "in_progress", 2), agent |-> i,
              pool |-> [agents EXCEPT ![task.type][i] =
                           PrepareTask(agents[task.type][i], t).agent],
              total |-> total_cost, flag |-> cost_limit_reached,
              pc |-> "executing",
              edges |-> {<<task.status, "in_progress">>},
              events |-> <<"acquire", "in_progress", "execute">>,
              reserve |-> NoReserve]

\* _process_task from the IN_PROGRESS write (160) to the suspension at
\* model.agenerate inside execute_task, for the agent at index i of the
\* task's pool: execute_task's prepare_task (coding_agent.py 77-82) and, when
\* it refuses, the rest of the lifecycle on the failure it returns.
ExecuteTaskCall(t, i) ==
    LET task == tasks[t]
        running == UpdateStatus(task, "in_progress", 2)
        p == PrepareTask(agents[task.type][i], t)
        first == <<"acquire", "in_progress", "execute">>
    IN  IF p.ok
        THEN [task |-> running, agent |-> i,
              pool |-> [agents EXCEPT ![task.type][i] = p.agent],
              total |-> total_cost, flag |-> cost_limit_reached,
              pc |-> "executing",
              edges |-> {<<task.status, "in_progress">>},
              events |-> first, reserve |-> NoReserve]
        ELSE LET post == AfterExecute(running,
                             AgentResult(FALSE, 0, ErrBusy), FALSE)
             IN  [task |-> post.task, agent |-> i, pool |-> agents,
                  total |-> post.total, flag |-> post.flag,
                  pc |-> post.pc,
                  edges |-> {<<task.status, "in_progress">>}
                              \cup post.edges,
                  events |-> first \o <<"execute_fail">> \o post.events,
                  reserve |-> post.reserve]

\* _process_task from its start to the suspension at model.agenerate inside
\* execute_task: agent selection (147-151), then the call of execute_task on
\* the agent found.
StartStep(t) ==
    LET task == tasks[t]
        i == GetAvailableAgent(task.type)
    IN  IF i = NoAgent
        THEN [task |-> Failed(task, ErrNoAgent), agent |-> NoAgent,
              pool |-> agents, total |-> total_cost,
              flag |-> cost_limit_reached, pc |-> "done",
              edges |-> {<<task.status, "failed">>},
              events |-> <<"no_agent", "failed">>, reserve |-> NoReserve]
        ELSE ExecuteTaskCall(t, i)

ProcessTaskStart(t) ==
    /\ pc[t] = "scheduled"
    /\ LET post == StartStep(t)
       IN  /\ tasks' = [tasks EXCEPT ![t] = post.task]
           /\ agents' = post.pool
           /\ total_cost' = post.total
           /\ cost_limit_reached' = post.flag
           /\ pc' = [pc EXCEPT ![t] = post.pc]
           /\ lc_agent' = [lc_agent EXCEPT ![t] = post.agent]
           /\ log' = [log EXCEPT ![t] = @ \o post.events]
           /\ edges' = [edges EXCEPT ![t] = post.edges]
           /\ reserve' = [reserve EXCEPT ![t] = Observed(post)]
    /\ api' = NoCall
    /\ UNCHANGED <<initialized, init_returned, lc_result, cancelled>>

\* What the model call inside execute_task can do: raise (also anything
\* after it raising), give a response _parse_response turns into a
\* successful AgentResult of some cost, or one it cannot parse.
ExecuteOutcomes ==
    {[kind |-> "raise", cost |-> 0, has_text |-> FALSE],
     [kind |-> "unparsed", cost |-> 0, has_text |-> FALSE]}
    \cup {[kind |-> "ok", cost |-> c, has_text |-> h] : c \in Costs, h \in BOOLEAN}

\* execute_task from the return of model.agenerate to its return
\* (coding_agent.py 94-118): the result it returns and the agent afterwards.
ExecuteTaskReturn(a, out) ==
    CASE out.kind = "raise" ->
           [agent |-> HandleError(a), result |-> AgentResult(FALSE, 0, ErrRaised)]
      [] out.kind = "unparsed" ->
           [agent |-> CleanupTask(a), result |-> AgentResult(FALSE, 0, ErrParse)]
      [] out.kind = "ok" ->
           [agent |-> CleanupTask(a), result |-> AgentResult(TRUE, out.cost, NoError)]

ExecuteResume(t) ==
    /\ pc[t] = "executing"
    /\ \E out \in ExecuteOutcomes :
         LET ty == tasks[t].type
             i == lc_agent[t]
             ret == ExecuteTaskReturn(agents[ty][i], out)
             post == AfterExecute(tasks[t], ret.result, out.has_text)
         IN  /\ agents' = [agents EXCEPT ![ty][i] = ret.agent]
             /\ lc_result' = [lc_result EXCEPT ![t] = ret.result]
             /\ tasks' = [tasks EXCEPT ![t] = post.task]
             /\ total_cost' = post.total
             /\ cost_limit_reached' = post.flag
             /\ pc' = [pc EXCEPT ![t] = post.pc]
             /\ log' = [log EXCEPT ![t] =
                          @ \o <<IF ret.result.success THEN "execute_ok"
                                 ELSE "execute_fail">> \o post.events]
             /\ edges' = [edges EXCEPT ![t] = post.edges]
             /\ reserve' = [reserve EXCEPT ![t] = Observed(post)]
    /\ api' = NoCall
    /\ UNCHANGED <<initialized, init_returned, lc_agent, cancelled>>

\* validate_result from the return of verification_model.agenerate to its
\* return (coding_agent.py 137-151): the bool and the agent afterwards.
ValidateOutcomes == {"valid", "invalid", "raise"}

\* Mutant: a validate_result that raised reports the result as valid.
MutValidateRaiseCountsAsValid(a, out) ==
    IF out = "raise"
    THEN [agent |-> HandleError(a), is_valid |-> TRUE]
    ELSE [agent |-> a, is_valid |-> (out = "valid")]

ValidateResultReturn(a, out) ==
    IF out = "raise"
    THEN [agent |-> HandleError(a), is_valid |-> FALSE]
    ELSE [agent |-> a, is_valid |-> (out = "valid")]

\* Mutant: the verdict of validate_result is not looked at.
MutAfterValidateIgnoresVerdict(task, res, is_valid) ==
    [task |-> Completed(task, res),
     edges |-> {<<task.status, "completed">>},
     events |-> <<"completed">>]

\* _process_task from the return of validate_result to its end (180-188).
AfterValidate(task, res, is_valid) ==
    IF ~is_valid
    THEN [task |-> Failed(task, ErrValidation),
          edges |-> {<<task.status, "failed">>},
          events |-> <<"failed">>]
    ELSE [task |-> Completed(task, res),
          edges |-> {<<task.status, "completed">>},
          events |-> <<"completed">>]

ValidateResume(t) ==
    /\ pc[t] = "validating"
    /\ \E out \in ValidateOutcomes :
         LET ty == tasks[t].type
             i == lc_agent[t]
             ret == ValidateResultReturn(agents[ty][i], out)
             post == AfterValidate(tasks[t], lc_result[t], ret.is_valid)
         IN  /\ agents' = [agents EXCEPT ![ty][i] = ret.agent]
             /\ tasks' = [tasks EXCEPT ![t] = post.task]
             /\ log' = [log EXCEPT ![t] =
                          @ \o <<IF ret.is_valid THEN "validate_ok"
                                 ELSE "validate_fail">> \o post.events]
             /\ edges' = [edges EXCEPT ![t] = post.edges]
    /\ pc' = [pc EXCEPT ![t] = "done"]
    /\ api' = NoCall
    /\ UNCHANGED <<total_cost, cost_limit_reached, initialized, init_returned, lc_agent,
                   lc_result, cancelled, reserve>>

Next ==
    \/ Initialize
    \/ \E ty \in TaskType : SubmitTask(ty)
    \/ \E t \in TaskIds : CancelTask(t)
    \/ \E t \in TaskIds : ProcessTaskStart(t)
    \/ \E t \in TaskIds : ExecuteResume(t)
    \/ \E t \in TaskIds : ValidateResume(t)

Spec == Init /\ [][Next]_vars

\* The event loop runs every ready coroutine, and the two model calls are
\* assumed to return: each lifecycle step that is enabled is eventually taken.
FairSpec ==
    /\ Spec
    /\ \A t \in TaskIds : /\ WF_vars(ProcessTaskStart(t))
                          /\ WF_vars(ExecuteResume(t))
                          /\ WF_vars(ValidateResume(t))

\* ------------------------------------------------------------- calls
\* The calls that change nothing in the orchestrator.  Together with the
\* steps above they make up ApiSpec, in which every call of the public
\* methods is a step that records what the caller gets back.
program == <<agents, tasks, total_cost, cost_limit_reached, initialized, init_returned, pc,
             lc_agent, lc_result, log, edges, cancelled, reserve>>

\* Mutant: the terminal check comes after the write of Failed.
MutCancelTaskRefusedWrites(task_id) ==
    /\ IF task_id \in DOMAIN tasks
       THEN tasks[task_id].status \in {"completed", "failed"}
       ELSE TRUE
    /\ api' = Returned("cancel_task", task_id, FALSE)
    /\ tasks' = IF task_id \in DOMAIN tasks
                THEN [tasks EXCEPT ![task_id] =
                        [UpdateStatus(@, "failed", NoProgress) EXCEPT !.error = ErrCancelled]]
                ELSE tasks
    /\ UNCHANGED <<agents, total_cost, cost_limit_reached, initialized, init_returned, pc,
                   lc_agent, lc_result, log, edges, cancelled, reserve>>

\* cancel_task on an unknown id (lines 105-106) or on a task that is already
\* Completed or Failed (lines 109-110): returns False.
CancelTaskRefused(task_id) ==
    /\ IF task_id \in DOMAIN tasks
       THEN tasks[task_id].status \in {"completed", "failed"}
       ELSE TRUE
    /\ api' = Returned("cancel_task", task_id, FALSE)
    /\ UNCHANGED program

\* Mutant: the view leaves the task's cost out.
MutTaskViewNoCost(task) ==
    [type |-> task.type, status |-> task.status, progress |-> task.progress,
     cost |-> 0,
     result |-> IF task.result.none THEN "None" ELSE "output",
     error |-> task.error]

\* The dict get_task_status builds; `result` is task.result.output, or None
\* while the task holds no result.
TaskView(task) ==
    [type |-> task.type, status |-> task.status, progress |-> task.progress,
     cost |-> task.cost,
     result |-> IF task.result.none THEN "None" ELSE "output",
     error |-> task.error]

GetTaskStatus(task_id) ==
    /\ api' = IF task_id \notin DOMAIN tasks
              THEN Raised("get_task_status", task_id, ErrNotFound)
              ELSE Returned("get_task_status", task_id, TaskView(tasks[task_id]))
    /\ UNCHANGED program

\* Mutant: the count forgets to filter by status.
MutCountTasksAll(status) ==
    Cardinality(DOMAIN tasks)

\* len([t for t in self._tasks.values() if t.status == status])
CountTasks(status) ==
    Cardinality({t \in DOMAIN tasks : tasks[t].status = status})

\* The dict get_system_status builds.
SystemStatus ==
    [total_cost |-> total_cost,
     cost_limit_reached |-> cost_limit_reached,
     active_tasks |-> CountTasks("in_progress"),
     completed_tasks |-> CountTasks("completed"),
     failed_tasks |-> CountTasks("failed"),
     agents |-> [ty \in TaskType |-> Len(agents[ty])]]

GetSystemStatus ==
    /\ api' = Returned("get_system_status", NoTask, SystemStatus)
    /\ UNCHANGED program

ApiNext ==
    \/ Initialize
    \/ \E ty \in TaskType : SubmitTask(ty)
    \/ \E t \in TaskIds : CancelTask(t)
    \/ \E t \in TaskIds : CancelTaskRefused(t)
    \/ \E t \in TaskIds : GetTaskStatus(t)
    \/ GetSystemStatus
    \/ \E t \in TaskIds : ProcessTaskStart(t)
    \/ \E t \in TaskIds : ExecuteResume(t)
    \/ \E t \in TaskIds : ValidateResume(t)

ApiSpec == Init /\ [][ApiNext]_vars

\* ------------------------------------------------------------- pools
\* _get_available_agent on arbitrary pools: the pool of one type holds up to
\* MaxPool agents in any statuses (the function reads nothing but the status
\* of each agent), and tasks of any type are submitted and started on it.
Pools(ty) ==
    UNION {[1..n -> {[BaseAgentInit(AgentIdOf(ty)) EXCEPT !.status = s] :
                        s \in AgentStatus}] : n \in 0..MaxPool}

PoolInit ==
    /\ \E ty \in TaskType : \E pool \in Pools(ty) :
          agents = [u \in TaskType |-> IF u = ty THEN pool ELSE << >>]
    /\ tasks = << >>
    /\ total_cost = 0
    /\ cost_limit_reached = FALSE
    /\ initialized = TRUE
    /\ init_returned = [u \in TaskType |-> IF agents[u] = << >> THEN "none" ELSE "true"]
    /\ pc = [t \in TaskIds |-> "unborn"]
    /\ lc_agent = [t \in TaskIds |-> NoAgent]
    /\ lc_result = [t \in TaskIds |-> NoneResult]
    /\ log = [t \in TaskIds |-> << >>]
    /\ edges = [t \in TaskIds |-> {}]
    /\ cancelled = {}
    /\ reserve = [t \in TaskIds |-> NoReserve]
    /\ api = NoCall

PoolNext ==
    \/ \E ty \in TaskType : SubmitTask(ty)
    \/ \E t \in TaskIds : ProcessTaskStart(t)

PoolSpec == PoolInit /\ [][PoolNext]_vars

\* ------------------------------------------------------------- direct calls
\* execute_task is a public method of the agent: the lifecycle of task t
\* calling it on the agent at index i of the task's pool whatever that
\* agent's status, which _get_available_agent never lets happen.
ExecuteTaskOn(t, i) ==
    /\ pc[t] = "scheduled"
    /\ i \in 1..Len(agents[tasks[t].type])
    /\ LET post == ExecuteTaskCall(t, i)
       IN  /\ tasks' = [tasks EXCEPT ![t] = post.task]
           /\ agents' = post.pool
           /\ total_cost' = post.total
           /\ cost_limit_reached' = post.flag
           /\ pc' = [pc EXCEPT ![t] = post.pc]
           /\ lc_agent' = [lc_agent EXCEPT ![t] = i]
           /\ log' = [log EXCEPT ![t] = @ \o post.events]
           /\ edges' = [edges EXCEPT ![t] = post.edges]
           /\ reserve' = [reserve EXCEPT ![t] = Observed(post)]
    /\ api' = NoCall
    /\ UNCHANGED <<initialized, init_returned, lc_result, cancelled>>

\* Tasks of one type whose execute_task is called on any agent of a pool
\* drawn in any statuses.
DirectNext ==
    \/ \E ty \in TaskType : SubmitTask(ty)
    \/ \E t \in TaskIds, i \in 1..MaxPool : ExecuteTaskOn(t, i)

DirectSpec == PoolInit /\ [][DirectNext]_vars

\* ------------------------------------------------------------- properties
Terminal == {"completed", "failed"}
Registered == DOMAIN tasks
InFlight(t) == pc[t] \in {"executing", "validating"}

RECURSIVE SumOver(_, _)
SumOver(f, S) ==
    IF S = {} THEN 0
    ELSE LET x == CHOOSE y \in S : TRUE
         IN  f[x] + SumOver(f, S \ {x})

SumTried == SumOver([t \in TaskIds |-> IF reserve[t].tried THEN reserve[t].amount ELSE 0], TaskIds)
SumAccepted == SumOver([t \in TaskIds |-> IF reserve[t].accepted THEN reserve[t].amount ELSE 0], TaskIds)
SumTaskCost == SumOver([t \in Registered |-> tasks[t].cost], Registered)

\* C1: in every reachable state the ledger total is at most COST_LIMIT, and
\* when the reservations attempted so far sum to more than the limit, the
\* accepted ones still sum to at most the limit and some attempt was refused.
C1_TotalWithinLimit ==
    /\ total_cost <= COST_LIMIT
    /\ SumAccepted <= COST_LIMIT
    /\ SumTried > COST_LIMIT => \E t \in TaskIds : reserve[t].tried /\ ~reserve[t].accepted

\* Two lifecycles overlap; one holds an accepted non-zero reservation and is
\* still running, the other's reservation was refused.
C1_Witness ==
    \E t1 \in Registered, t2 \in Registered :
        /\ t1 # t2
        /\ pc[t1] = "validating" /\ reserve[t1].accepted /\ reserve[t1].amount > 0
        /\ reserve[t2].tried /\ ~reserve[t2].accepted
        /\ SumTried > COST_LIMIT

\* C2: once cancel_task has returned True for a task, the task stays Failed
\* with the cancellation reason and without a result, whatever its lifecycle
\* does afterwards.
C2_CancelIsFinal ==
    \A t \in cancelled :
        /\ tasks[t].status = "failed"
        /\ tasks[t].error = ErrCancelled
        /\ tasks[t].result.none

\* C3: every update_status call follows an edge of the task state machine.
LegalEdges ==
    {<<"pending", "in_progress">>, <<"in_progress", "verifying">>,
     <<"in_progress", "failed">>, <<"verifying", "completed">>,
     <<"verifying", "failed">>, <<"pending", "failed">>}

C3_OnlyLegalEdges == \A t \in TaskIds : edges[t] \subseteq LegalEdges

\* C4: Completed has a result and no error, Failed has an error and no
\* result, a non-terminal task has neither.
C4_ResultXorError ==
    \A t \in Registered :
        /\ tasks[t].status = "completed" =>
              ~tasks[t].result.none /\ tasks[t].error = NoError
        /\ tasks[t].status = "failed" =>
              tasks[t].error # NoError /\ tasks[t].result.none
        /\ tasks[t].status \notin Terminal =>
              tasks[t].result.none /\ tasks[t].error = NoError

\* C5: every registered task eventually has a finished lifecycle and a
\* terminal status (under FairSpec).
C5_EventuallyTerminal ==
    \A t \in TaskIds :
        (t \in Registered) ~>
            (t \in Registered /\ pc[t] = "done" /\ tasks[t].status \in Terminal)

\* A task cancelled while its lifecycle was in flight has ended, while
\* another lifecycle is still running.
C5_Witness ==
    \E t1 \in Registered, t2 \in Registered :
        /\ t1 # t2
        /\ t1 \in cancelled /\ Len(log[t1]) > 2
        /\ pc[t1] = "done" /\ tasks[t1].status \in Terminal
        /\ InFlight(t2)

\* C6: no two running lifecycles of one category hold the same agent.
C6_AgentExclusive ==
    \A t1 \in Registered, t2 \in Registered :
        (t1 # t2 /\ InFlight(t1) /\ InFlight(t2)
            /\ tasks[t1].type = tasks[t2].type)
        => lc_agent[t1] # lc_agent[t2]

\* C7: a lifecycle's steps come in the order of _process_task, none skipped:
\* its history is a prefix of one of the five complete runs, and a Completed
\* task has the full successful run behind it, reservation accepted.
Upto(n, seq) == SubSeq(seq, 1, n)
RunHead == <<"acquire", "in_progress", "execute">>
CompletedRun ==
    RunHead \o <<"execute_ok", "reserve_ok", "verifying", "validate",
                 "validate_ok", "completed">>
Runs ==
    {<<"no_agent", "failed">>,
     RunHead \o <<"execute_fail", "failed">>,
     RunHead \o <<"execute_ok", "reserve_rejected", "failed">>,
     RunHead \o <<"execute_ok", "reserve_ok", "verifying", "validate",
                  "validate_fail", "failed">>,
     CompletedRun}

C7_StepsInOrder ==
    \A t \in Registered :
        /\ \E r \in Runs : Len(log[t]) <= Len(r) /\ log[t] = Upto(Len(log[t]), r)
        /\ tasks[t].status = "completed" =>
              log[t] = CompletedRun /\ reserve[t].accepted
        /\ pc[t] = "validating" => reserve[t].accepted

C7_Witness ==
    \E t \in Registered :
        /\ tasks[t].status = "completed" /\ tasks[t].type = "design"
        /\ tasks[t].cost = MaxCost

\* C8: the ledger total is the sum of the accepted reservations, and the
\* sum of task.cost over all tasks.
C8_NoLostUpdate ==
    /\ total_cost = SumAccepted
    /\ total_cost = SumTaskCost

\* Two accepted non-zero reservations by lifecycles that overlapped.
C8_Witness ==
    \E t1 \in Registered, t2 \in Registered :
        /\ t1 # t2
        /\ reserve[t1].accepted /\ reserve[t1].amount > 0
        /\ reserve[t2].accepted /\ reserve[t2].amount > 0
        /\ pc[t1] = "validating" /\ pc[t2] = "validating"

\* C9: a reservation of a is accepted iff total + a <= limit at the check;
\* accepted, the total grows by exactly a; refused, the total is unchanged
\* and the flag is set.
C9_ReserveContract ==
    \A t \in TaskIds :
        reserve[t].tried =>
            /\ reserve[t].accepted <=>
                  (reserve[t].before + reserve[t].amount <= COST_LIMIT)
            /\ reserve[t].accepted =>
                  reserve[t].after = reserve[t].before + reserve[t].amount
            /\ ~reserve[t].accepted =>
                  reserve[t].after = reserve[t].before /\ reserve[t].flag

\* One reservation accepted, and one refused that exceeds the limit by
\* exactly one unit.
C9_Witness ==
    \E t1 \in TaskIds, t2 \in TaskIds :
        /\ reserve[t1].accepted /\ reserve[t1].amount > 0
        /\ reserve[t2].tried /\ ~reserve[t2].accepted
        /\ reserve[t2].before + reserve[t2].amount = COST_LIMIT + 1

\* C10: a task whose reservation was refused is Failed with the cost-limit
\* reason, has cost 0, left the ledger as it was, was never validated and
\* never was Verifying.
C10_RejectedReservation ==
    \A t \in Registered :
        (reserve[t].tried /\ ~reserve[t].accepted) =>
            /\ tasks[t].status = "failed"
            /\ tasks[t].error = ErrCostLimit
            /\ tasks[t].cost = 0
            /\ tasks[t].result.none
            /\ reserve[t].after = reserve[t].before
            /\ pc[t] = "done"
            /\ \A k \in 1..Len(log[t]) : log[t][k] \notin {"verifying", "validate"}
            /\ \A e \in edges[t] : e[2] # "verifying"

\* Scenario B: the ledger is partly used, the cost does not fit any more.
C10_Witness ==
    \E t \in Registered :
        /\ reserve[t].tried /\ ~reserve[t].accepted
        /\ reserve[t].before > 0 /\ reserve[t].before < COST_LIMIT
        /\ reserve[t].amount <= COST_LIMIT
        /\ total_cost = reserve[t].before

Holders(ty, i) ==
    {t \in Registered : tasks[t].type = ty /\ lc_agent[t] = i /\ InFlight(t)}

\* The holders that are still inside execute_task.
Executing(ty, i) ==
    {t \in Holders(ty, i) : pc[t] = "executing"}

\* C12: an agent is Busy for at most one task at a time, and an agent that no
\* lifecycle holds (none is between acquiring it and its end) is not Busy,
\* also after execute_task or validate_result raised.
C12_NeverLeftBusy ==
    \A ty \in TaskType : \A i \in 1..Len(agents[ty]) :
        /\ Cardinality(Executing(ty, i)) <= 1
        /\ agents[ty][i].status = "busy" =>
              /\ Holders(ty, i) # {}
              /\ agents[ty][i].current_task_id \in Executing(ty, i)
        /\ Holders(ty, i) = {} => agents[ty][i].status # "busy"

\* An agent whose execute_task raised and that no lifecycle holds any more.
C12_Witness ==
    \E t \in Registered :
        /\ pc[t] = "done"
        /\ tasks[t].error = ErrRaised
        /\ lc_agent[t] # NoAgent
        /\ Holders(tasks[t].type, lc_agent[t]) = {}
        /\ agents[tasks[t].type][lc_agent[t]].status = "error"

\* C13: once a lifecycle that acquired an agent has ended, on whatever exit
\* path, and no other lifecycle holds that agent, the agent is Idle again.
C13_IdleAfterEnd ==
    \A t \in Registered :
        (/\ pc[t] = "done"
         /\ lc_agent[t] # NoAgent
         /\ Holders(tasks[t].type, lc_agent[t]) = {})
        => agents[tasks[t].type][lc_agent[t]].status = "idle"

\* C14: the agent acquired for a task is released only after the task's
\* validation has finished: while the task is InProgress or Verifying and its
\* lifecycle still runs, its agent is not Idle.
C14_HeldUntilValidated ==
    \A t \in Registered :
        (/\ InFlight(t)
         /\ tasks[t].status \in {"in_progress", "verifying"})
        => agents[tasks[t].type][lc_agent[t]].status # "idle"

\* C15: selecting an Idle agent and marking it Busy is one indivisible step:
\* a lifecycle that has been handed an agent and has not yet come back from
\* execute_task never sees that agent still Idle, and prepare_task never
\* refuses the agent that _get_available_agent has just handed out.
C15_AcquireMarksBusy ==
    \A t \in Registered :
        /\ tasks[t].error # ErrBusy
        /\ pc[t] = "executing" =>
              /\ lc_agent[t] # NoAgent
              /\ agents[tasks[t].type][lc_agent[t]].status # "idle"

\* One lifecycle is inside execute_task on an agent it has marked Busy, and a
\* second task of the same type started meanwhile and was handed no agent.
C15_Witness ==
    \E t \in Registered, u \in Registered :
        /\ pc[t] = "executing"
        /\ agents[tasks[t].type][lc_agent[t]].status = "busy"
        /\ agents[tasks[t].type][lc_agent[t]].current_task_id = t
        /\ tasks[u].type = tasks[t].type
        /\ pc[u] = "done"
        /\ tasks[u].error = ErrNoAgent

\* C16: _get_available_agent returns the first agent of the type, in pool
\* order, whose status is Idle, and None when the pool has none; an agent
\* that is Busy, Error or Offline is never returned.
C16_FirstIdle ==
    [][\A t \in TaskIds :
          (pc[t] = "scheduled" /\ pc'[t] # "scheduled") =>
             LET pool == agents[tasks[t].type]
                 r == lc_agent'[t]
             IN  /\ r = NoAgent <=>
                       \A i \in 1..Len(pool) : pool[i].status # "idle"
                 /\ r # NoAgent =>
                       /\ r \in 1..Len(pool)
                       /\ pool[r].status = "idle"
                       /\ \A j \in 1..(r - 1) : pool[j].status # "idle"]_vars

\* The agent handed out was the second of its pool: the first one was in
\* Error or Offline and was passed over, and a later Idle one was not taken.
C16_Witness ==
    \E t \in Registered :
        LET pool == agents[tasks[t].type]
        IN  /\ lc_agent[t] = 2
            /\ Len(pool) >= 3
            /\ pool[1].status \in {"error", "offline"}
            /\ pool[2].current_task_id = t
            /\ pool[3].status = "idle"

\* No agent of the type is Idle.
NoIdle(ty) ==
    \A i \in 1..Len(agents[ty]) : agents[ty][i].status # "idle"

\* C17: a lifecycle that starts while no agent of its type is Idle ends at
\* once with the task Failed for lack of an agent, without writing
\* InProgress, and leaves every agent and the ledger as they were; the task
\* stays that way.
C17_NoAgentFails ==
    /\ [][\A t \in TaskIds :
            (pc[t] = "scheduled" /\ pc'[t] # "scheduled" /\ NoIdle(tasks[t].type)) =>
               /\ pc'[t] = "done"
               /\ tasks'[t].status = "failed"
               /\ tasks'[t].error = ErrNoAgent
               /\ tasks'[t].progress = tasks[t].progress
               /\ edges'[t] = {<<tasks[t].status, "failed">>}
               /\ lc_agent'[t] = NoAgent
               /\ agents' = agents
               /\ total_cost' = total_cost
               /\ cost_limit_reached' = cost_limit_reached]_vars
    /\ [](\A t \in Registered :
            (log[t] # << >> /\ log[t][1] = "no_agent") =>
               /\ log[t] = <<"no_agent", "failed">>
               /\ tasks[t].status = "failed"
               /\ tasks[t].error = ErrNoAgent
               /\ tasks[t].result.none
               /\ tasks[t].cost = 0
               /\ ~reserve[t].tried)

\* A task that found the one agent of its type Busy with another task, after
\* money had been committed.
C17_Witness ==
    \E t \in Registered :
        /\ tasks[t].error = ErrNoAgent
        /\ log[t] = <<"no_agent", "failed">>
        /\ Len(agents[tasks[t].type]) > 0
        /\ agents[tasks[t].type][1].status = "busy"

\* The lifecycle of t has taken step e.
Logged(t, e) ==
    \E k \in 1..Len(log[t]) : log[t][k] = e

\* C18: a task that is not cancelled, whose execute_task succeeded with a
\* cost that fitted under the limit when it was reserved and whose validation
\* passed, is Completed with progress 1.0, holds the result, has that cost as
\* its own, and the ledger grew by exactly that cost on its behalf.
C18_HappyPath ==
    \A t \in Registered :
        (/\ t \notin cancelled
         /\ reserve[t].tried
         /\ reserve[t].before + reserve[t].amount <= COST_LIMIT
         /\ Logged(t, "validate_ok"))
        => /\ pc[t] = "done"
           /\ tasks[t].status = "completed"
           /\ tasks[t].progress = 10
           /\ tasks[t].error = NoError
           /\ ~tasks[t].result.none
           /\ tasks[t].result = lc_result[t]
           /\ tasks[t].result.success
           /\ tasks[t].result.cost = reserve[t].amount
           /\ tasks[t].cost = reserve[t].amount
           /\ reserve[t].accepted
           /\ reserve[t].after = reserve[t].before + reserve[t].amount
           /\ total_cost >= reserve[t].after

\* The largest cost, reserved on an empty ledger and validated by the
\* verification model: the task is Completed and the ledger holds its cost.
C18_Witness ==
    \E t \in Registered :
        /\ t \notin cancelled
        /\ tasks[t].status = "completed"
        /\ log[t] = CompletedRun
        /\ reserve[t].before = 0
        /\ tasks[t].cost = MaxCost
        /\ total_cost = MaxCost

\* C19: when execute_task succeeded and its cost was reserved but the
\* validation did not pass, the task is Failed with the validation reason,
\* holds no result, keeps the reserved cost as its own, and the ledger keeps
\* the money (no refund).
C19_ValidationFailed ==
    \A t \in Registered :
        Logged(t, "validate_fail")
        => /\ pc[t] = "done"
           /\ tasks[t].status = "failed"
           /\ tasks[t].error = ErrValidation
           /\ tasks[t].result.none
           /\ reserve[t].accepted
           /\ tasks[t].cost = reserve[t].amount
           /\ reserve[t].after = reserve[t].before + reserve[t].amount
           /\ total_cost >= reserve[t].after
           /\ total_cost = SumAccepted

\* A validation that failed after a cost above zero had been reserved.
C19_Witness ==
    \E t \in Registered :
        /\ Logged(t, "validate_fail")
        /\ tasks[t].error = ErrValidation
        /\ tasks[t].cost = MaxCost
        /\ total_cost >= MaxCost

C21_ExecuteRaiseReleased ==
    \A t \in Registered :
        (Logged(t, "execute_fail") /\ lc_result[t].error = ErrRaised)
        => /\ pc[t] = "done"
           /\ tasks[t].status = "failed"
           /\ tasks[t].error = ErrRaised
           /\ ~reserve[t].tried
           /\ tasks[t].cost = 0
           /\ Holders(tasks[t].type, lc_agent[t]) = {} =>
                 agents[tasks[t].type][lc_agent[t]].status = "idle"

\* C22: a validate_result that raised (the step in which the validation ends
\* and handle_error puts the agent into Error) is treated like a False
\* verdict: the task is Failed with the validation reason and no result, and
\* its cost and the ledger stay as the accepted reservation left them.
C22_ValidateRaiseIsFalse ==
    [][\A t \in TaskIds :
          (/\ pc[t] = "validating"
           /\ pc'[t] = "done"
           /\ agents[tasks[t].type][lc_agent[t]].status # "error"
           /\ agents'[tasks[t].type][lc_agent[t]].status = "error")
          => /\ tasks'[t].status = "failed"
             /\ tasks'[t].error = ErrValidation
             /\ tasks'[t].result.none
             /\ tasks'[t].progress = tasks[t].progress
             /\ reserve[t].accepted
             /\ tasks'[t].cost = reserve[t].amount
             /\ tasks'[t].cost = tasks[t].cost
             /\ total_cost' = total_cost
             /\ cost_limit_reached' = cost_limit_reached
             /\ reserve' = reserve
             /\ log'[t] = log[t] \o <<"validate_fail", "failed">>]_vars

\* The only lifecycle that ran so far reserved the largest cost and its
\* validation left the agent in Error: validate_result raised.
C22_Witness ==
    \E t \in Registered :
        /\ Logged(t, "validate_fail")
        /\ agents[tasks[t].type][lc_agent[t]].status = "error"
        /\ tasks[t].error = ErrValidation
        /\ tasks[t].cost = MaxCost
        /\ total_cost = MaxCost
        /\ \A u \in Registered \ {t} : log[u] = << >>

\* C26: once _process_task has returned, on whatever path, the task's status
\* is Completed or Failed; no lifecycle ends with its task Pending,
\* InProgress or Verifying.
C26_ReturnedIsTerminal ==
    \A t \in Registered :
        pc[t] = "done" =>
           /\ tasks[t].status \in Terminal
           /\ tasks[t].status \notin {"pending", "in_progress", "verifying"}
           /\ log[t] \in Runs

\* One lifecycle returned after execute_task raised, another after its task
\* was completed.
C26_Witness ==
    \E t \in Registered, u \in Registered :
        /\ pc[t] = "done" /\ tasks[t].error = ErrRaised
        /\ pc[u] = "done" /\ tasks[u].status = "completed"

\* C27: a task's cost is 0 until its reservation is accepted, is set to the
\* result's cost in that one step, and is never written again (not when the
\* validation fails, not on a cancel); it is above 0 only if a reservation
\* for the task was accepted.
C27_CostSetOnce ==
    /\ [](\A t \in Registered :
            /\ tasks[t].cost = (IF reserve[t].accepted THEN reserve[t].amount ELSE 0)
            /\ tasks[t].cost > 0 => reserve[t].accepted
            /\ reserve[t].accepted => lc_result[t].cost = tasks[t].cost)
    /\ [][\A t \in Registered :
            tasks'[t].cost # tasks[t].cost =>
               /\ ~reserve[t].tried
               /\ tasks[t].cost = 0
               /\ reserve'[t].accepted
               /\ tasks'[t].cost = lc_result'[t].cost]_vars

\* A task whose cost was set by an accepted reservation, whose validation
\* then failed and which had been cancelled in between: the cost is still
\* the one reserved.
C27_Witness ==
    \E t \in Registered :
        /\ t \in cancelled
        /\ Logged(t, "validate_fail")
        /\ tasks[t].cost = MaxCost
        /\ reserve[t].amount = MaxCost

\* C28: a task's progress is always one of 0, 0.2, 0.8 and 1.0 (so within
\* [0,1]), is 0 at creation, 0.2 when InProgress, 0.8 when Verifying and 1.0
\* when Completed, is left as it was by a write of Failed, and never
\* decreases in any lifecycle step or cancel.
C28_ProgressMonotone ==
    /\ [](\A t \in Registered :
            /\ tasks[t].progress \in {0, 2, 8, 10}
            /\ tasks[t].status = "pending" => tasks[t].progress = 0
            /\ tasks[t].status = "in_progress" => tasks[t].progress = 2
            /\ tasks[t].status = "verifying" => tasks[t].progress = 8
            /\ tasks[t].status = "completed" => tasks[t].progress = 10)
    /\ [][\A t \in Registered :
            /\ tasks'[t].progress >= tasks[t].progress
            /\ (tasks'[t].status = "failed" /\ tasks'[t] # tasks[t]) =>
                  tasks'[t].progress = tasks[t].progress]_vars

\* A task cancelled while Verifying and one that failed while InProgress:
\* both Failed, with the progress they had.
C28_Witness ==
    \E t \in Registered, u \in Registered :
        /\ tasks[t].status = "failed" /\ tasks[t].progress = 8
        /\ t \in cancelled /\ tasks[t].error = ErrCancelled
        /\ tasks[u].status = "failed" /\ tasks[u].progress = 2

\* C23: cancel_task on a known task returns True exactly when the task is
\* neither Completed nor Failed at the call, and then makes it Failed with
\* the cancel reason and changes nothing else of it; on a Completed or Failed
\* task it returns False and changes nothing.  It never changes the ledger,
\* an agent, another task or a lifecycle.
C23_CancelContract ==
    [][(api'.op = "cancel_task" /\ api'.id \in DOMAIN tasks) =>
          LET id == api'.id
          IN  /\ api'.raised = NoError
              /\ api'.value = (tasks[id].status \notin Terminal)
              /\ api'.value =>
                    tasks' = [tasks EXCEPT ![id].status = "failed",
                                           ![id].error = ErrCancelled]
              /\ ~api'.value => tasks' = tasks
              /\ agents' = agents
              /\ total_cost' = total_cost
              /\ cost_limit_reached' = cost_limit_reached
              /\ pc' = pc /\ lc_agent' = lc_agent /\ lc_result' = lc_result]_vars

\* cancel_task has just returned True for a task that was Verifying with
\* money reserved: the task is Failed with the cancel reason and keeps its
\* progress and cost, and the ledger keeps the money.
C23_Witness ==
    /\ api.op = "cancel_task"
    /\ api.value = TRUE
    /\ api.id \in Registered
    /\ pc[api.id] = "validating"
    /\ tasks[api.id].status = "failed"
    /\ tasks[api.id].error = ErrCancelled
    /\ tasks[api.id].progress = 8
    /\ tasks[api.id].cost = MaxCost
    /\ total_cost >= MaxCost

\* C24: cancel_task on an id that submit_task never returned fails with a
\* not-found error instead of returning a boolean, and changes no state.
C24_CancelUnknownNotFound ==
    (api.op = "cancel_task" /\ api.id \notin Registered)
    => api.raised = ErrNotFound

\* C25: get_task_status on an id that submit_task never returned raises the
\* not-found error; on a known id it returns the task's current status,
\* progress, cost, result (None while there is none) and error; in both
\* cases it changes no task, agent, ledger or lifecycle state.
C25_StatusIsReadProjection ==
    [][api'.op = "get_task_status" =>
          LET id == api'.id
          IN  /\ program' = program
              /\ id \notin DOMAIN tasks => api'.raised = ErrNotFound
              /\ id \in DOMAIN tasks =>
                    /\ api'.raised = NoError
                    /\ api'.value.status = tasks'[id].status
                    /\ api'.value.progress = tasks'[id].progress
                    /\ api'.value.cost = tasks'[id].cost
                    /\ api'.value.error = tasks'[id].error
                    /\ api'.value.type = tasks'[id].type
                    /\ (api'.value.result = "None") = tasks'[id].result.none]_vars

\* get_task_status has just returned the view of a Completed task that
\* holds a result and the largest cost.
C25_Witness ==
    /\ api.op = "get_task_status"
    /\ api.raised = NoError
    /\ api.id \in Registered
    /\ api.value.status = "completed"
    /\ api.value.progress = 10
    /\ api.value.cost = MaxCost
    /\ api.value.result = "output"
    /\ api.value.error = NoError

\* C29: submit_task registers the task under an id no existing task has,
\* Pending with progress 0, cost 0, no result and no error, and returns that
\* id before the lifecycle has taken a step; it changes no other task, no
\* agent and not the ledger; a get_task_status on the returned id right
\* after it succeeds and shows the new task.
C29_SubmitRegisters ==
    /\ [][api'.op = "submit_task" =>
            LET id == api'.value
            IN  /\ api'.raised = NoError
                /\ id \notin DOMAIN tasks
                /\ DOMAIN tasks' = DOMAIN tasks \cup {id}
                /\ tasks'[id].status = "pending"
                /\ tasks'[id].progress = 0
                /\ tasks'[id].cost = 0
                /\ tasks'[id].result.none
                /\ tasks'[id].error = NoError
                /\ \A u \in DOMAIN tasks : tasks'[u] = tasks[u]
                /\ pc'[id] = "scheduled" /\ log'[id] = << >>
                /\ \A u \in TaskIds \ {id} : pc'[u] = pc[u]
                /\ agents' = agents
                /\ total_cost' = total_cost
                /\ cost_limit_reached' = cost_limit_reached
                /\ lc_agent' = lc_agent /\ lc_result' = lc_result]_vars
    /\ [][(api.op = "submit_task" /\ api'.op = "get_task_status"
                                  /\ api'.id = api.value) =>
            /\ api'.raised = NoError
            /\ api'.value.status = "pending"
            /\ api'.value.progress = 0
            /\ api'.value.cost = 0
            /\ api'.value.result = "None"
            /\ api'.value.error = NoError]_vars

\* submit_task has just returned the id of a second task while the first is
\* Completed and has money on the ledger.
C29_Witness ==
    /\ api.op = "submit_task"
    /\ api.value = 2
    /\ tasks[2].status = "pending"
    /\ pc[2] = "scheduled"
    /\ tasks[1].status = "completed"
    /\ total_cost = MaxCost

\* C30: get_system_status changes nothing, and what it returns agrees with
\* the state at the call: the ledger's total and flag, for each status it
\* reports (InProgress, Completed, Failed) the number of registered tasks
\* now in that status, and for each type the size of its pool.
C30_SystemStatusConsistent ==
    [][api'.op = "get_system_status" =>
          LET v == api'.value
              in_status(s) == {t \in DOMAIN tasks' : tasks'[t].status = s}
          IN  /\ program' = program
              /\ api'.raised = NoError
              /\ v.total_cost = total_cost'
              /\ v.cost_limit_reached = cost_limit_reached'
              /\ v.active_tasks = Cardinality(in_status("in_progress"))
              /\ v.completed_tasks = Cardinality(in_status("completed"))
              /\ v.failed_tasks = Cardinality(in_status("failed"))
              /\ v.active_tasks + v.completed_tasks + v.failed_tasks
                    <= Len(tasks')
              /\ \A ty \in TaskType : v.agents[ty] = Len(agents'[ty])]_vars

\* get_system_status has just reported one Completed and one Failed task,
\* money on the ledger and the limit flag set.
C30_Witness ==
    /\ api.op = "get_system_status"
    /\ api.value.completed_tasks = 1
    /\ api.value.failed_tasks = 1
    /\ api.value.active_tasks = 0
    /\ api.value.total_cost = MaxCost
    /\ api.value.cost_limit_reached
    /\ api.value.agents["code"] = 1

\* C31: an agent whose initialize() returned False is never admitted to the
\* pool: every agent in _agents comes from an initialize() that returned
\* True, a type whose agent failed to initialize has an empty pool, and no
\* task of that type is ever handed an agent.
C31_OnlyInitializedAdmitted ==
    \A ty \in TaskType :
        /\ agents[ty] # << >> => init_returned[ty] = "true"
        /\ init_returned[ty] = "false" =>
              /\ agents[ty] = << >>
              /\ \A t \in Registered :
                    tasks[t].type = ty =>
                        /\ lc_agent[t] = NoAgent
                        /\ ~Logged(t, "acquire")
                        /\ ~Logged(t, "execute")

\* One type's agent failed to initialize and a task of that type found no
\* agent, while another type's agent was admitted and ran a task.
C31_Witness ==
    \E t \in Registered, u \in Registered :
        /\ init_returned[tasks[t].type] = "false"
        /\ tasks[t].error = ErrNoAgent
        /\ init_returned[tasks[u].type] = "true"
        /\ Logged(u, "execute")

\* How many times event e stands in task t's history.
Times(t, e) == Cardinality({k \in DOMAIN log[t] : log[t][k] = e})

\* C32: there is no internal retry. Each lifecycle looks for an agent at most
\* once, calls execute_task at most once, asks for a reservation at most
\* once and calls validate_result at most once; a task that failed because
\* no agent was available is never executed, and a task that failed because
\* its reservation was refused is finished and is not executed again.
C32_NoRetry ==
    \A t \in TaskIds :
        /\ Times(t, "acquire") + Times(t, "no_agent") <= 1
        /\ Times(t, "execute") <= 1
        /\ Times(t, "reserve_ok") + Times(t, "reserve_rejected") <= 1
        /\ Times(t, "validate") <= 1
        /\ Logged(t, "no_agent") =>
              /\ pc[t] = "done"
              /\ log[t] = <<"no_agent", "failed">>
              /\ lc_agent[t] = NoAgent
        /\ Logged(t, "reserve_rejected") =>
              /\ pc[t] = "done"
              /\ log[t] = RunHead \o <<"execute_ok", "reserve_rejected", "failed">>

\* One task has failed for want of an agent and stays unexecuted while the
\* agent it did not get is idle again; the other was refused its reservation.
C32_Witness ==
    \E t \in Registered, u \in Registered :
        /\ tasks[t].error = ErrNoAgent
        /\ pc[t] = "done"
        /\ ~NoIdle(tasks[t].type)
        /\ tasks[u].type = tasks[t].type
        /\ pc[u] = "done"
        /\ Logged(u, "execute")

\* The step being taken belongs to the lifecycle of task t.
LifecycleStep(t) ==
    /\ pc[t] \in {"scheduled", "executing", "validating"}
    /\ pc'[t] # pc[t]

\* C33: the types are independent. A step of the lifecycle of a task of type
\* X leaves the pools of all other types as they were, and the task fails
\* for want of an agent exactly when its own type has no idle agent,
\* whatever state the other types' agents are in.
C33_TypesIndependent ==
    [][\A t \in TaskIds :
          LifecycleStep(t) =>
              /\ \A ty \in TaskType \ {tasks[t].type} : agents'[ty] = agents[ty]
              /\ pc[t] = "scheduled" =>
                    ((pc'[t] = "done" /\ tasks'[t].error = ErrNoAgent
                        /\ lc_agent'[t] = NoAgent)
                     <=> NoIdle(tasks[t].type))]_vars

\* The only agent of one type is in Error after a task of that type raised,
\* and a task of another type has completed.
C33_Witness ==
    \E t \in Registered, u \in Registered :
        /\ tasks[t].type # tasks[u].type
        /\ Logged(t, "execute_fail")
        /\ Len(agents[tasks[t].type]) > 0
        /\ agents[tasks[t].type][1].status = "error"
        /\ tasks[u].status = "completed"
        /\ Logged(u, "validate_ok")

\* C34: while an agent is Busy executing task b, no step of another task's
\* lifecycle changes that agent's status or current_task_id; in particular
\* the validate_result of an earlier task does not move it to Error.
C34_BusyAgentUntouched ==
    [][\A b \in TaskIds, a \in TaskIds :
          (/\ a # b
           /\ pc[b] = "executing"
           /\ agents[tasks[b].type][lc_agent[b]].status = "busy"
           /\ agents[tasks[b].type][lc_agent[b]].current_task_id = b
           /\ LifecycleStep(a))
          => agents'[tasks[b].type][lc_agent[b]] = agents[tasks[b].type][lc_agent[b]]]_vars

\* C35: once cancel_task has returned True for a task, nothing is charged on
\* its behalf: its lifecycle changes neither the task's cost nor the ledger
\* afterwards, and starts no agent execution for it.
C35_NothingChargedAfterCancel ==
    [][\A t \in cancelled :
          /\ tasks'[t].cost = tasks[t].cost
          /\ LifecycleStep(t) =>
                /\ total_cost' = total_cost
                /\ ~(pc[t] = "scheduled" /\ pc'[t] = "executing")]_vars

\* C36: for every agent of every pool, current_task_id is set exactly when
\* the agent's status is Busy, whatever the interleaving of executions and
\* validations.
C36_TaskIdIffBusy ==
    \A ty \in TaskType : \A i \in 1..Len(agents[ty]) :
        (agents[ty][i].current_task_id # NoTask) <=> (agents[ty][i].status = "busy")

\* An interleaving of an execution with a validation: the agent is Busy with
\* the id of the task executing on it while the task it served before is
\* still being validated.
C36_Witness ==
    \E t \in Registered, u \in Registered :
        /\ pc[t] = "validating"
        /\ pc[u] = "executing"
        /\ tasks[t].type = tasks[u].type
        /\ agents[tasks[u].type][lc_agent[u]].status = "busy"
        /\ agents[tasks[u].type][lc_agent[u]].current_task_id = u
        /\ agents[tasks[u].type][lc_agent[u]].total_tasks_completed = 1

\* C37: when execute_task is called on an agent that is not Idle,
\* prepare_task refuses: no agent changes, execute_task returns the failure
\* 'Agent is busy or unavailable', and the calling task ends Failed with that
\* reason, at the progress of the IN_PROGRESS write, with no cost, no
\* reservation attempt and no change of the ledger.
C37_NonIdleRefused ==
    [][\A t \in TaskIds :
          (/\ pc[t] = "scheduled"
           /\ pc'[t] # "scheduled"
           /\ agents[tasks[t].type][lc_agent'[t]].status # "idle")
          => /\ agents' = agents
             /\ pc'[t] = "done"
             /\ tasks'[t] = [tasks[t] EXCEPT !.status = "failed", !.progress = 2,
                                             !.error = ErrBusy]
             /\ log'[t] = RunHead \o <<"execute_fail", "failed">>
             /\ reserve'[t] = NoReserve
             /\ total_cost' = total_cost
             /\ cost_limit_reached' = cost_limit_reached]_vars

\* execute_task has been called on a Busy agent and on an agent in Error,
\* and both calling tasks have failed with the refusal.
C37_Witness ==
    \E t \in Registered, u \in Registered :
        /\ t # u
        /\ tasks[t].error = ErrBusy
        /\ tasks[u].error = ErrBusy
        /\ agents[tasks[t].type][lc_agent[t]].status = "busy"
        /\ agents[tasks[u].type][lc_agent[u]].status = "error"

\* The flag says that some reservation has been refused so far.
FlagTellsRejection ==
    cost_limit_reached <=>
        \E t \in TaskIds : reserve[t].tried /\ ~reserve[t].accepted

C39_InitializedHasEveryType ==
    /\ [][initialized =>
             \A ty \in TaskType : Len(agents'[ty]) = Len(agents[ty])]_vars
    /\ []((api.op = "initialize" /\ api.value = TRUE) =>
             \A ty \in TaskType : Len(agents[ty]) >= 1)

\* C40: a task's progress is 1.0 exactly when its status is Completed, and a
\* Failed task has the progress it had when it failed (0, 0.2 or 0.8): the
\* step that leaves it Failed does not change its progress.
C40_FullProgressIffCompleted ==
    /\ [](\A t \in Registered :
            /\ (tasks[t].progress = 10) <=> (tasks[t].status = "completed")
            /\ tasks[t].status = "failed" => tasks[t].progress \in {0, 2, 8})
    /\ [][\A t \in Registered :
            tasks'[t].status = "failed" =>
                tasks'[t].progress = tasks[t].progress]_vars

\* One task is Completed at full progress, the other failed its validation
\* and stays at the progress of Verifying.
C40_Witness ==
    \E t \in Registered, u \in Registered :
        /\ tasks[t].status = "completed" /\ tasks[t].progress = 10
        /\ tasks[u].status = "failed" /\ tasks[u].progress = 8
        /\ tasks[u].error = ErrValidation
====
